---- MODULE Spec2Model ----
(***************************************************************************)
(* The pipeline board of the CRM (src/src/pages/Pipeline.tsx) over its     *)
(* two tables, pipeline_stages and contacts (supabase/migrations).         *)
(* The persisted rows (dbStages, dbContacts) and the board's React state   *)
(* (stages, contacts, allContacts, loading) are separate variables; every  *)
(* handler is one action: its persistence calls, each of which may fail,   *)
(* then its set-state calls and the render that follows them.              *)
(***************************************************************************)
EXTENDS Integers, Sequences, FiniteSets, TLC

VARIABLES
    dbStages,      \* pipeline_stages rows: id -> [name, position, is_default]
    dbContacts,    \* contacts rows: id -> [stage_id, sale_date, sale_value, properties]
    nextStageId,   \* the id the next inserted pipeline_stages row gets
    stages,        \* useState<Stage[]>: the board's stage list
    contacts,      \* useState<Contact[]>: the board's contact list
    allContacts,   \* useState<Contact[]>: the snapshot the search dialog reads
    loading,       \* useState(true): the spinner hides the board while TRUE
    toast,         \* the notification shown last
    calls,         \* the persistence calls issued by the handler that ran last
    prompted,      \* prompt() in the handler that ran last: Null (not called) or <<answer>>
    event,         \* the handler that ran last and its arguments
    now,           \* the clock: one tick per handler run
    user,          \* useAuth().user: Null, or <<id>> while signed in
    pending        \* the stage actions that wait for the persistence service

vars == << dbStages, dbContacts, nextStageId, stages, contacts, allContacts,
           loading, toast, calls, prompted, event, now, user, pending >>

dbVars == << dbStages, dbContacts, nextStageId >>
viewVars == << stages, contacts, allContacts, loading >>

----------------------------------------------------------------------------
(* Bounds of the exploration *)

\* handler runs explored from the first mount
MaxOps == 3
\* pipeline_stages rows inserted by "Nova Etapa" over one run
MaxNewStages == 1
\* stage actions waiting for the persistence service at one time
MaxPending == 2

----------------------------------------------------------------------------
(* Values *)

\* SQL NULL / JavaScript null and undefined; a present value v is <<v>>
Null == << >>
Some(v) == << v >>

\* a JavaScript number: NaN, for which every comparison is false, or a value
Num(v) == [ nan |-> FALSE, v |-> v ]
NaN == [ nan |-> TRUE, v |-> 0 ]

\* amounts are counted in thousandths, so that DECIMAL(12,2) rounds
Amount(units) == units * 1000
\* 0.004, an amount below one cent
SubCent == 4

\* sale_value DECIMAL(12,2): a written value is rounded to whole cents
Decimal12_2(v) == IF v >= 0 THEN ((v + 5) \div 10) * 10 ELSE 0 - (((0 - v) + 5) \div 10) * 10

\* handle_new_user: the five default stages, positions 1..5
DefaultStageNames ==
    << "Aguardando atendimento", "Em Atendimento", "Visita Agendada",
       "Venda Ganha", "Venda Perdida" >>

\* the name the board matches to find the won stage
VendaGanha == "Venda Ganha"

\* a faulty SeededStages: the positions counted from 0
SeededStagesFromZero ==
    [ i \in 1 .. Len(DefaultStageNames) |->
        [ name |-> DefaultStageNames[i], position |-> i - 1, is_default |-> TRUE ] ]

SeededStages ==
    [ i \in 1 .. Len(DefaultStageNames) |->
        [ name |-> DefaultStageNames[i], position |-> i, is_default |-> TRUE ] ]

\* the contacts of the owner, in the order the contacts query returns them
ContactIds == { 1, 2, 3 }

\* contacts.name, as characters (the search matches substrings)
ContactName(c) ==
    CASE c = 1 -> << "M", "a", "r", "i", "a" >>
      [] c = 2 -> << "O", "m", "a", "r" >>
      [] OTHER -> << "A", "n", "a" >>

\* a stage the owner added in an earlier session with "Nova Etapa"
CustomStage == [ name |-> "Novos", position |-> 6, is_default |-> FALSE ]

\* The tables as an earlier session left them: the seeded stages and one the
\* owner added.  Contact 1 has a property priced 350000.00 and stands in the
\* first stage; contact 2 has a property priced 0, was moved to 'Venda Ganha'
\* in that session (sold for 100000.00) and afterwards to the added stage,
\* where it stands with its sale stamp; contact 3 has no property and is not
\* in the pipeline.
PersistedStages ==
    [ i \in 1 .. Len(DefaultStageNames) + 1 |->
        IF i <= Len(DefaultStageNames) THEN SeededStages[i] ELSE CustomStage ]

PersistedContacts ==
    [ c \in ContactIds |->
        CASE c = 1 -> [ stage_id |-> Some(1), sale_date |-> Null, sale_value |-> Null,
                        properties |-> Some([ price |-> Amount(350000) ]) ]
          [] c = 2 -> [ stage_id |-> Some(Len(DefaultStageNames) + 1),
                        sale_date |-> Some(0 - 1), sale_value |-> Some(Amount(100000)),
                        properties |-> Some([ price |-> 0 ]) ]
          [] OTHER -> [ stage_id |-> Null, sale_date |-> Null, sale_value |-> Null,
                        properties |-> Null ] ]

\* the owner of the rows: auth.users.id of the signed-in user
Owner == "owner"

\* an id that is no pipeline_stages row (a card's id under the pointer)
OtherId == 0

\* what the operator can answer to prompt(): Null is Cancel
PromptInputs == { Null, Some(""), Some("abc"), Some("0"), Some("-5"),
                  Some("0.004"), Some("250000") }

\* what the operator types as a stage name
StageNameInputs == { "", "   ", "Novos", VendaGanha }

\* what the operator leaves in the name input of a stage card
EditNameInputs == { "", VendaGanha }

\* what the operator types in the search box
SearchInputs == { << >>, << "M", "A" >>, << "a", "n" >>, << "x", "y", "z" >> }

Directions == { "up", "down" }

----------------------------------------------------------------------------
(* JavaScript built-ins the handlers use *)

\* parseFloat over the prompt answers
parseFloat(s) ==
    CASE s = "0" -> Num(0)
      [] s = "-5" -> Num(Amount(0 - 5))
      [] s = "0.004" -> Num(SubCent)
      [] s = "250000" -> Num(Amount(250000))
      [] OTHER -> NaN

\* x > 0 in JavaScript: false for NaN
GreaterThanZero(x) == ~ x.nan /\ x.v > 0

\* String.prototype.trim over the stage-name inputs
trim(s) == IF s = "   " THEN "" ELSE s

\* String.prototype.toLowerCase, character by character
LowerChar(ch) ==
    CASE ch = "M" -> "m"
      [] ch = "O" -> "o"
      [] ch = "A" -> "a"
      [] OTHER -> ch

toLowerCase(s) == [ i \in 1 .. Len(s) |-> LowerChar(s[i]) ]

\* String.prototype.includes
includes(s, q) ==
    \E i \in 0 .. (Len(s) - Len(q)) : SubSeq(s, i + 1, i + Len(q)) = q

\* the first of the indices at which a test succeeds
First(hits) == CHOOSE i \in hits : \A j \in hits : i <= j

\* Array.prototype.find, given the indices at which the test succeeds: the
\* first element satisfying it, or Null
Find(seq, hits) == IF hits = { } THEN Null ELSE Some(seq[First(hits)])

\* Array.prototype.findIndex, given the indices at which the test succeeds,
\* 1-based; 0 when absent
FindIndex(hits) == IF hits = { } THEN 0 ELSE First(hits)

\* the place of each element in the stable order by position: an element
\* comes after those of lower position and after those of equal position
\* that stood before it
Ranks(seq) ==
    [ j \in 1 .. Len(seq) |->
        Cardinality({ i \in 1 .. Len(seq) :
            \/ seq[i].position < seq[j].position
            \/ seq[i].position = seq[j].position /\ i < j }) + 1 ]

\* Array.prototype.sort((a, b) => a.position - b.position): stable
\* (s and rank are bound, so that each is computed once)
SortByPosition(seq) ==
    CHOOSE sorted \in
        { [ k \in 1 .. Len(s) |-> s[CHOOSE j \in 1 .. Len(s) : rank[j] = k] ] :
            << s, rank >> \in { << t, Ranks(t) >> : t \in { seq } } } : TRUE

\* { ...row, ...updateData }
Spread(row, updateData) ==
    [ f \in DOMAIN row |-> IF f \in DOMAIN updateData THEN updateData[f] ELSE row[f] ]

\* Math.max(...S)
MaxOf(S) == CHOOSE x \in S : \A y \in S : y <= x

\* Math.min(...S)
MinOf(S) == CHOOSE x \in S : \A y \in S : x <= y

----------------------------------------------------------------------------
(* Notifications (descriptions are written without their accents) *)

Toast(description, variant) == [ description |-> description, variant |-> variant ]
NoToast == Toast("", "none")
Sucesso(description) == Toast(description, "default")
Erro(description) == Toast(description, "destructive")

----------------------------------------------------------------------------
(* The persistence service *)

Call(table, op, id, data, ok) ==
    [ table |-> table, op |-> op, id |-> id, data |-> data, ok |-> ok ]

\* the policies USING (auth.uid() = user_id): the rows a request can see,
\* update or delete are the session's own; without a session, none
Authorized == user # Null

\* what a write to contacts stores of updateData
StoredContactData(updateData) ==
    [ f \in DOMAIN updateData |->
        IF f = "sale_value" /\ updateData[f] # Null
        THEN Some(Decimal12_2(updateData[f][1]))
        ELSE updateData[f] ]

\* a faulty StageReferenceValid: the column carries no reference constraint
StageReferenceUnchecked(db, updateData) == TRUE

\* stage_id UUID REFERENCES pipeline_stages(id)
StageReferenceValid(db, updateData) ==
    "stage_id" \in DOMAIN updateData /\ updateData.stage_id # Null
        => updateData.stage_id[1] \in DOMAIN db

\* update(updateData).eq('id', contactId) on contacts: no error
ContactUpdateOk(transportOk, updateData) ==
    transportOk /\ ( Authorized => StageReferenceValid(dbStages, updateData) )

\* a faulty ContactsAfterUpdate: a sale field that is already set is kept
ContactsAfterUpdateKeepingFirstSale(rows, contactId, updateData) ==
    [ c \in DOMAIN rows |->
        IF c = contactId
        THEN [ f \in DOMAIN rows[c] |->
                 IF /\ f \in DOMAIN updateData
                    /\ ~ ( f \in { "sale_date", "sale_value" } /\ rows[c][f] # Null )
                 THEN StoredContactData(updateData)[f]
                 ELSE rows[c][f] ]
        ELSE rows[c] ]

\* the contacts rows after the update
ContactsAfterUpdate(rows, contactId, updateData) ==
    [ c \in DOMAIN rows |->
        IF Authorized /\ c = contactId
        THEN Spread(rows[c], StoredContactData(updateData))
        ELSE rows[c] ]

\* update({ position }).eq('id', stageId) on pipeline_stages
StagesAfterPosition(rows, stageId, position, ok) ==
    [ s \in DOMAIN rows |->
        IF Authorized /\ ok /\ s = stageId
        THEN [ rows[s] EXCEPT !.position = position ]
        ELSE rows[s] ]

\* update({ name }).eq('id', stageId) on pipeline_stages
StagesAfterName(rows, stageId, name) ==
    [ s \in DOMAIN rows |->
        IF Authorized /\ s = stageId THEN [ rows[s] EXCEPT !.name = name ] ELSE rows[s] ]

\* delete().eq('id', stageId) on pipeline_stages: no error. A row that a
\* contacts row references cannot be deleted (contacts.stage_id REFERENCES).
StageDeleteOk(transportOk, stageId) ==
    /\ transportOk
    /\ Authorized => \A c \in DOMAIN dbContacts : dbContacts[c].stage_id # Some(stageId)

StagesAfterDelete(rows, stageId) ==
    [ s \in DOMAIN rows \ ( IF Authorized THEN { stageId } ELSE { } ) |-> rows[s] ]

\* insert(...).select().single() on pipeline_stages: no error. The policy
\* WITH CHECK (auth.uid() = user_id) refuses a row without a session.
StageInsertOk(transportOk) == transportOk /\ Authorized

StagesAfterInsert(rows, id, row) ==
    [ s \in DOMAIN rows \cup { id } |-> IF s = id THEN row ELSE rows[s] ]

\* a pipeline_stages row as the client receives it
StageOf(rows, id) ==
    [ id |-> id, name |-> rows[id].name, position |-> rows[id].position,
      is_default |-> rows[id].is_default ]

\* a contacts row, with its joined property, as the client receives it
ContactOf(rows, id) ==
    [ id |-> id, stage_id |-> rows[id].stage_id, sale_date |-> rows[id].sale_date,
      sale_value |-> rows[id].sale_value, properties |-> rows[id].properties ]

\* select('*').order('position'): every order of the rows that ascends by
\* position (rows of equal position come in any order)
RECURSIVE OrderedByPosition(_, _)
OrderedByPosition(rows, ids) ==
    IF ids = {} THEN { << >> }
    ELSE LET least == { i \in ids : \A j \in ids : rows[i].position <= rows[j].position }
         IN  UNION { { << StageOf(rows, i) >> \o rest :
                         rest \in OrderedByPosition(rows, ids \ { i }) } : i \in least }

\* select('*, properties(description, price)') on contacts
RECURSIVE ContactsInOrder(_, _)
ContactsInOrder(rows, ids) ==
    IF ids = {} THEN << >>
    ELSE LET least == CHOOSE i \in ids : \A j \in ids : i <= j
         IN  << ContactOf(rows, least) >> \o ContactsInOrder(rows, ids \ { least })

----------------------------------------------------------------------------
(* What the board renders *)

\* stages.sort((a, b) => a.position - b.position) in the render sorts the
\* state array in place
Rendered(stageList) == SortByPosition(stageList)

StageIdsOnBoard == { stages[i].id : i \in 1 .. Len(stages) }

\* getContactsByStage under each rendered stage: the cards on the board
ContactIdsOnBoard ==
    { contacts[i].id : i \in { j \in 1 .. Len(contacts) :
                                  \E s \in StageIdsOnBoard : contacts[j].stage_id = Some(s) } }

PositionsOnBoard == { stages[i].position : i \in 1 .. Len(stages) }

\* the ArrowUp / ArrowDown button is not disabled
MoveButtonEnabled(stage, direction) ==
    IF direction = "up"
    THEN stage.position # MinOf(PositionsOnBoard)
    ELSE stage.position # MaxOf(PositionsOnBoard)

\* a faulty DeleteButtonRendered: the trash button on every stage card
DeleteButtonAlways(stage) == TRUE

\* {!stage.is_default && <Button ... handleDeleteStage>}
DeleteButtonRendered(stage) == ~ stage.is_default

----------------------------------------------------------------------------
(* Initial state: the signup trigger has run, the page is mounting *)

Init ==
    /\ dbStages = PersistedStages
    /\ dbContacts = PersistedContacts
    /\ nextStageId = Cardinality(DOMAIN dbStages) + 1
    /\ stages = << >>
    /\ contacts = << >>
    /\ allContacts = << >>
    /\ loading = TRUE
    /\ toast = NoToast
    /\ calls = << >>
    /\ prompted = Null
    /\ event = [ handler |-> "none", args |-> << >> ]
    /\ now = 0
    /\ user = Some(Owner)
    /\ pending = << >>

\* a handler is called: the clock ticks and the call is recorded; no handler
\* changes the session
Began(handler, args) ==
    /\ now < MaxOps
    /\ now' = now + 1
    /\ event' = [ handler |-> handler, args |-> args ]
    /\ user' = user

\* one handler run from its call to its end, nothing else running meanwhile
Ran(handler, args) ==
    /\ Began(handler, args)
    /\ pending' = pending

----------------------------------------------------------------------------
(* useEffect -> loadData: the page mounts and loads both tables *)

loadData ==
    /\ Ran("loadData", << >>)
    /\ \E stagesOk \in BOOLEAN :
       \E contactsOk \in IF stagesOk THEN BOOLEAN ELSE { FALSE } :
       \E order \in IF stagesOk /\ contactsOk
                    THEN OrderedByPosition(dbStages, DOMAIN dbStages)
                    ELSE { << >> } :
           /\ calls' = << Call("pipeline_stages", "select", Null, Null, stagesOk) >>
                       \o ( IF stagesOk
                            THEN << Call("contacts", "select", Null, Null, contactsOk) >>
                            ELSE << >> )
           /\ IF stagesOk /\ contactsOk
              THEN /\ stages' = Rendered(order)
                   /\ contacts' = ContactsInOrder(dbContacts, DOMAIN dbContacts)
                   /\ allContacts' = ContactsInOrder(dbContacts, DOMAIN dbContacts)
                   /\ toast' = NoToast
              ELSE /\ stages' = << >>
                   /\ contacts' = << >>
                   /\ allContacts' = << >>
                   /\ toast' = Erro("Erro ao carregar dados do pipeline")
           /\ loading' = FALSE
           /\ prompted' = Null
           /\ UNCHANGED dbVars

----------------------------------------------------------------------------
(* Moving a contact: handleDragEnd *)

\* stages.find(stage => stage.name === 'Venda Ganha')
vendaGanhaStage ==
    Find(stages, { i \in 1 .. Len(stages) : stages[i].name = VendaGanha })

\* a faulty isMovingToSale: the id comparison is missing
isMovingToAnyStage(newStageId) == vendaGanhaStage # Null

\* newStageId === vendaGanhaStage?.id
isMovingToSale(newStageId) ==
    vendaGanhaStage # Null /\ newStageId = vendaGanhaStage[1].id

\* a faulty propertyPrice: the associated property is ignored
noPropertyPrice(contact) == 0

\* contact.properties?.price || 0
propertyPrice(contact) ==
    IF contact.properties = Null THEN 0 ELSE contact.properties[1].price

\* prompt(...) || '0'
PromptOrZero(input) == IF input = Null \/ input = Some("") THEN "0" ELSE input[1]

\* handleDragEnd: propertyPrice > 0 ? propertyPrice : parseFloat(prompt(...) || '0')
DragSaleValue(contact, input) ==
    IF propertyPrice(contact) > 0
    THEN Num(propertyPrice(contact))
    ELSE parseFloat(PromptOrZero(input))

\* handleDragEnd: the answers prompt() can get; none when it is not called
DragPromptAnswers(contact) ==
    IF propertyPrice(contact) > 0 THEN { Null } ELSE { Some(input) : input \in PromptInputs }

\* a faulty DragSaleData: the sale stamp is left out of the update
DragStageOnly(newStageId, saleValue, date) == [ stage_id |-> Some(newStageId) ]

\* handleDragEnd: updateData once the sale value is accepted
DragSaleData(newStageId, saleValue, date) ==
    [ stage_id |-> Some(newStageId), sale_date |-> Some(date),
      sale_value |-> Some(saleValue.v) ]

\* a faulty DragSaleAccepted: if (!isNaN(saleValue))
AnyNumberAccepted(saleValue) == ~ saleValue.nan

\* handleDragEnd: if (saleValue > 0)
DragSaleAccepted(saleValue) == GreaterThanZero(saleValue)

\* a faulty ContactsAfterSet: the test of the id is missing
ContactsAfterSetEvery(prev, contactId, updateData) ==
    [ i \in 1 .. Len(prev) |-> Spread(prev[i], updateData) ]

\* setContacts(prev => prev.map(contact => contact.id === contactId
\*   ? { ...contact, ...updateData } : contact))
ContactsAfterSet(prev, contactId, updateData) ==
    [ i \in 1 .. Len(prev) |->
        IF prev[i].id = contactId THEN Spread(prev[i], updateData) ELSE prev[i] ]

\* the write and what follows it, in handleDragEnd
DragWrite(contactId, updateData, isSale) ==
    \E transportOk \in BOOLEAN :
        LET ok == ContactUpdateOk(transportOk, updateData)
        IN  /\ calls' = << Call("contacts", "update", contactId, updateData, ok) >>
            /\ IF ok
               THEN /\ dbContacts' = ContactsAfterUpdate(dbContacts, contactId, updateData)
                    /\ contacts' = ContactsAfterSet(contacts, contactId, updateData)
                    /\ toast' = Sucesso(IF isSale THEN "Venda registrada com sucesso!"
                                                 ELSE "Contato movido com sucesso!")
               ELSE /\ UNCHANGED << dbContacts, contacts >>
                    /\ toast' = Erro("Erro ao mover contato")

handleDragEnd(contactId, over) ==
    /\ Ran("handleDragEnd", << contactId, over >>)
    /\ UNCHANGED << dbStages, nextStageId, stages, allContacts, loading >>
    /\ IF over = Null
       THEN /\ UNCHANGED << dbContacts, contacts >>
            /\ calls' = << >>
            /\ prompted' = Null
            /\ toast' = NoToast
       ELSE \E contact \in { Find(contacts, { i \in 1 .. Len(contacts) :
                                               contacts[i].id = contactId }) } :
            LET newStageId == over[1]
            IN  IF isMovingToSale(newStageId) /\ contact # Null
                THEN \E answer \in DragPromptAnswers(contact[1]) :
                     LET saleValue == DragSaleValue(contact[1],
                                                    IF answer = Null THEN Null ELSE answer[1])
                     IN  /\ prompted' = answer
                         /\ IF DragSaleAccepted(saleValue)
                            THEN DragWrite(contactId,
                                           DragSaleData(newStageId, saleValue, now'), TRUE)
                            ELSE /\ UNCHANGED << dbContacts, contacts >>
                                 /\ calls' = << >>
                                 /\ toast' = Erro("Valor de venda invalido")
                ELSE /\ prompted' = Null
                     /\ DragWrite(contactId, [ stage_id |-> Some(newStageId) ],
                                  isMovingToSale(newStageId))

\* a card is dropped: on nothing, on a stage column or on something else
DragEnd ==
    /\ ~ loading
    /\ \E contactId \in ContactIdsOnBoard :
       \E over \in { Null } \cup { Some(s) : s \in StageIdsOnBoard \cup { OtherId } } :
          handleDragEnd(contactId, over)

----------------------------------------------------------------------------
(* Moving a contact: handleContactStatusChange *)

\* a faulty StatusSaleValue: the operator is asked whatever the property's
\* price
StatusSaleValueAlwaysAsked(contact, input) == parseFloat(PromptOrZero(input))

\* handleContactStatusChange: the sale value
StatusSaleValue(contact, input) ==
    IF propertyPrice(contact) > 0
    THEN Num(propertyPrice(contact))
    ELSE parseFloat(PromptOrZero(input))

\* handleContactStatusChange: the answers prompt() can get; none when it is
\* not called
StatusPromptAnswers(contact) ==
    IF propertyPrice(contact) > 0 THEN { Null } ELSE { Some(input) : input \in PromptInputs }

\* a faulty StatusSaleData: the sale date is left out of the update
StatusSaleValueOnly(newStageId, saleValue, date) ==
    [ stage_id |-> Some(newStageId), sale_value |-> Some(saleValue.v) ]

\* handleContactStatusChange: updateData once the sale value is accepted
StatusSaleData(newStageId, saleValue, date) ==
    [ stage_id |-> Some(newStageId), sale_date |-> Some(date),
      sale_value |-> Some(saleValue.v) ]

\* handleContactStatusChange: if (saleValue > 0)
StatusSaleAccepted(saleValue) == GreaterThanZero(saleValue)

\* the write and what follows it, in handleContactStatusChange
StatusWrite(contactId, updateData, isSale) ==
    \E transportOk \in BOOLEAN :
        LET ok == ContactUpdateOk(transportOk, updateData)
        IN  /\ calls' = << Call("contacts", "update", contactId, updateData, ok) >>
            /\ IF ok
               THEN /\ dbContacts' = ContactsAfterUpdate(dbContacts, contactId, updateData)
                    /\ contacts' = ContactsAfterSet(contacts, contactId, updateData)
                    /\ toast' = Sucesso(IF isSale THEN "Venda registrada com sucesso!"
                                                 ELSE "Status do contato atualizado!")
               ELSE /\ UNCHANGED << dbContacts, contacts >>
                    /\ toast' = Erro("Erro ao atualizar status do contato")

handleContactStatusChange(contactId, newStageId) ==
    /\ Ran("handleContactStatusChange", << contactId, Some(newStageId) >>)
    /\ UNCHANGED << dbStages, nextStageId, stages, allContacts, loading >>
    /\ \E contact \in { Find(contacts, { i \in 1 .. Len(contacts) :
                                               contacts[i].id = contactId }) } :
           IF isMovingToSale(newStageId) /\ contact # Null
           THEN \E answer \in StatusPromptAnswers(contact[1]) :
                LET saleValue == StatusSaleValue(contact[1],
                                                 IF answer = Null THEN Null ELSE answer[1])
                IN  /\ prompted' = answer
                    /\ IF StatusSaleAccepted(saleValue)
                       THEN StatusWrite(contactId,
                                        StatusSaleData(newStageId, saleValue, now'), TRUE)
                       ELSE /\ UNCHANGED << dbContacts, contacts >>
                            /\ calls' = << >>
                            /\ toast' = Erro("Valor de venda invalido")
           ELSE /\ prompted' = Null
                /\ StatusWrite(contactId, [ stage_id |-> Some(newStageId) ],
                               isMovingToSale(newStageId))

\* a stage is picked in a card's "Alterar status" select
ContactStatusChange ==
    /\ ~ loading
    /\ \E contactId \in ContactIdsOnBoard, newStageId \in StageIdsOnBoard :
          handleContactStatusChange(contactId, newStageId)

----------------------------------------------------------------------------
(* handleRemoveContactFromPipeline *)

\* a faulty RemoveData: the removal also reverses the sale
RemoveDataClearingSale == [ stage_id |-> Null, sale_date |-> Null, sale_value |-> Null ]

\* handleRemoveContactFromPipeline: update({ stage_id: null })
RemoveData == [ stage_id |-> Null ]

handleRemoveContactFromPipeline(contactId) ==
    /\ Ran("handleRemoveContactFromPipeline", << contactId >>)
    /\ \E transportOk \in BOOLEAN :
           LET updateData == RemoveData
               ok == ContactUpdateOk(transportOk, updateData)
           IN  /\ UNCHANGED << dbStages, nextStageId, stages, allContacts, loading >>
               /\ prompted' = Null
               /\ calls' = << Call("contacts", "update", contactId, updateData, ok) >>
               /\ IF ok
                  THEN /\ dbContacts' = ContactsAfterUpdate(dbContacts, contactId, updateData)
                       /\ contacts' = ContactsAfterSet(contacts, contactId, updateData)
                       /\ toast' = Sucesso("Contato removido do pipeline!")
                  ELSE /\ UNCHANGED << dbContacts, contacts >>
                       /\ toast' = Erro("Erro ao remover contato do pipeline")

\* the trash button of a card
RemoveContactFromPipeline ==
    /\ ~ loading
    /\ \E contactId \in ContactIdsOnBoard :
          handleRemoveContactFromPipeline(contactId)

----------------------------------------------------------------------------
(* addContactToStage: the "Adicionar Contato" dialog *)

\* a faulty selectedContact: the last match is taken (findLast)
lastMatchingContact(searchTerm) ==
    LET hits == { i \in 1 .. Len(allContacts) :
                    includes(toLowerCase(ContactName(allContacts[i].id)),
                             toLowerCase(searchTerm)) }
    IN  IF hits = { } THEN Null ELSE Some(allContacts[MaxOf(hits)])

\* allContacts.find(contact =>
\*   contact.name.toLowerCase().includes(searchTerm.toLowerCase()))
selectedContact(searchTerm) ==
    Find(allContacts,
         { i \in 1 .. Len(allContacts) :
             includes(toLowerCase(ContactName(allContacts[i].id)),
                      toLowerCase(searchTerm)) })

addContactToStage(searchTerm, selectedStage) ==
    /\ Ran("addContactToStage", << searchTerm, selectedStage >>)
    /\ UNCHANGED << dbStages, nextStageId, stages, allContacts, loading >>
    /\ prompted' = Null
    /\ IF selectedStage = Null \/ searchTerm = << >>
       THEN /\ UNCHANGED << dbContacts, contacts >>
            /\ calls' = << >>
            /\ toast' = NoToast
       ELSE \E found \in { selectedContact(searchTerm) } :
            IF found = Null
       THEN /\ UNCHANGED << dbContacts, contacts >>
            /\ calls' = << >>
            /\ toast' = Erro("Contato nao encontrado")
       ELSE \E transportOk \in BOOLEAN :
            LET contactId == found[1].id
                updateData == [ stage_id |-> selectedStage ]
                ok == ContactUpdateOk(transportOk, updateData)
            IN  /\ calls' = << Call("contacts", "update", contactId, updateData, ok) >>
                /\ IF ok
                   THEN /\ dbContacts' =
                              ContactsAfterUpdate(dbContacts, contactId, updateData)
                        /\ contacts' = ContactsAfterSet(contacts, contactId, updateData)
                        /\ toast' = Sucesso("Contato adicionado a etapa!")
                   ELSE /\ UNCHANGED << dbContacts, contacts >>
                        /\ toast' = Erro("Erro ao adicionar contato")

\* "Adicionar" in the dialog: a search term and a stage of the select, or none
AddContactToStage ==
    /\ ~ loading
    /\ \E searchTerm \in SearchInputs :
       \E selectedStage \in { Null } \cup { Some(s) : s \in StageIdsOnBoard } :
          addContactToStage(searchTerm, selectedStage)

----------------------------------------------------------------------------
(* handleEditStageName *)

\* setStages(prev => prev.map(stage =>
\*   stage.id === stageId ? { ...stage, name: newName } : stage))
StagesAfterSetName(prev, stageId, newName) ==
    [ i \in 1 .. Len(prev) |->
        IF prev[i].id = stageId THEN [ prev[i] EXCEPT !.name = newName ] ELSE prev[i] ]

handleEditStageName(stageId, newName) ==
    /\ Ran("handleEditStageName", << stageId, newName >>)
    /\ \E transportOk \in BOOLEAN :
           /\ UNCHANGED << dbContacts, nextStageId, contacts, allContacts, loading >>
           /\ prompted' = Null
           /\ calls' = << Call("pipeline_stages", "update", stageId,
                               [ name |-> newName ], transportOk) >>
           /\ IF transportOk
              THEN /\ dbStages' = StagesAfterName(dbStages, stageId, newName)
                   /\ stages' = Rendered(StagesAfterSetName(stages, stageId, newName))
                   /\ toast' = Sucesso("Nome da etapa atualizado!")
              ELSE /\ UNCHANGED << dbStages, stages >>
                   /\ toast' = Erro("Erro ao atualizar nome da etapa")

\* "Salvar" or Enter in the name input of a stage card
EditStageName ==
    /\ ~ loading
    /\ \E stageId \in StageIdsOnBoard, newName \in EditNameInputs :
          handleEditStageName(stageId, newName)

----------------------------------------------------------------------------
(* handleMoveStage *)

\* a faulty StagesAfterSwap: the neighbour's entry is built by spreading
\* currentStage instead of the mapped stage
StagesAfterSwapSpreadingCurrent(prev, currentStage, targetStage) ==
    [ i \in 1 .. Len(prev) |->
        IF prev[i].id = currentStage.id
        THEN [ prev[i] EXCEPT !.position = targetStage.position ]
        ELSE IF prev[i].id = targetStage.id
             THEN [ currentStage EXCEPT !.position = currentStage.position ]
             ELSE prev[i] ]

\* setStages(prev => prev.map(stage => ...)): the two positions exchanged
StagesAfterSwap(prev, currentStage, targetStage) ==
    [ i \in 1 .. Len(prev) |->
        IF prev[i].id = currentStage.id
        THEN [ prev[i] EXCEPT !.position = targetStage.position ]
        ELSE IF prev[i].id = targetStage.id
             THEN [ prev[i] EXCEPT !.position = currentStage.position ]
             ELSE prev[i] ]

\* direction === 'up' ? currentIndex - 1 : currentIndex + 1
TargetIndex(currentIndex, direction) ==
    IF direction = "up" THEN currentIndex - 1 ELSE currentIndex + 1

\* the first or the last stage cannot move further
AtEdge(sortedStages, currentIndex, direction) ==
    \/ direction = "up" /\ currentIndex = 1
    \/ direction = "down" /\ currentIndex = Len(sortedStages)

\* the two position writes: both are issued, whatever the first returns
MoveStageWrites(rows, currentStage, targetStage, ok1, ok2) ==
    StagesAfterPosition(
        StagesAfterPosition(rows, currentStage.id, targetStage.position, ok1),
        targetStage.id, currentStage.position, ok2)

\* if (error1 || error2) throw
MoveStageSucceeded(ok1, ok2) == ok1 /\ ok2

\* what handleMoveStage does, given sortedStages = [...stages].sort(...) and
\* what its two writes return: the calls it issues, the rows after them, the
\* stage list it sets and its toast
MoveStageOutcome(sortedStages, stageId, direction, ok1, ok2) ==
    LET currentStage == Find(stages, { i \in 1 .. Len(stages) : stages[i].id = stageId })
        currentIndex == FindIndex({ i \in 1 .. Len(sortedStages) :
                                      sortedStages[i].id = stageId })
        targetStage == sortedStages[TargetIndex(currentIndex, direction)]
    IN  IF currentStage = Null \/ AtEdge(sortedStages, currentIndex, direction)
        THEN [ calls |-> << >>, dbStages |-> dbStages, stages |-> stages,
               toast |-> NoToast ]
        ELSE [ calls |->
                 << Call("pipeline_stages", "update", currentStage[1].id,
                         [ position |-> targetStage.position ], ok1),
                    Call("pipeline_stages", "update", targetStage.id,
                         [ position |-> currentStage[1].position ], ok2) >>,
               dbStages |->
                 MoveStageWrites(dbStages, currentStage[1], targetStage, ok1, ok2),
               stages |->
                 IF MoveStageSucceeded(ok1, ok2)
                 THEN Rendered(StagesAfterSwap(stages, currentStage[1], targetStage))
                 ELSE stages,
               toast |->
                 IF MoveStageSucceeded(ok1, ok2)
                 THEN Sucesso("Posicao da etapa atualizada!")
                 ELSE Erro("Erro ao mover etapa") ]

handleMoveStage(stageId, direction) ==
    /\ Ran("handleMoveStage", << stageId, direction >>)
    /\ UNCHANGED << dbContacts, nextStageId, contacts, allContacts, loading >>
    /\ prompted' = Null
    /\ \E sortedStages \in { SortByPosition(stages) } :
       \E outcome \in { MoveStageOutcome(sortedStages, stageId, direction, ok1, ok2) :
                            ok1 \in BOOLEAN, ok2 \in BOOLEAN } :
          /\ calls' = outcome.calls
          /\ dbStages' = outcome.dbStages
          /\ stages' = outcome.stages
          /\ toast' = outcome.toast

\* an arrow button of a stage card that is not disabled
MoveStage ==
    /\ ~ loading
    /\ \E i \in 1 .. Len(stages), direction \in Directions :
          /\ MoveButtonEnabled(stages[i], direction)
          /\ handleMoveStage(stages[i].id, direction)

----------------------------------------------------------------------------
(* handleDeleteStage *)

\* a faulty stageWithContacts: the check for contacts is missing
noStageWithContacts(stageId) == FALSE

\* contacts.some(contact => contact.stage_id === stageId)
stageWithContacts(stageId) ==
    \E i \in 1 .. Len(contacts) : contacts[i].stage_id = Some(stageId)

\* setStages(prev => prev.filter(stage => stage.id !== stageId))
StagesAfterFilter(prev, stageId) == SelectSeq(prev, LAMBDA stage : stage.id # stageId)

handleDeleteStage(stageId) ==
    /\ Ran("handleDeleteStage", << stageId >>)
    /\ UNCHANGED << dbContacts, nextStageId, contacts, allContacts, loading >>
    /\ prompted' = Null
    /\ IF stageWithContacts(stageId)
       THEN /\ UNCHANGED << dbStages, stages >>
            /\ calls' = << >>
            /\ toast' = Erro("Nao e possivel excluir uma etapa que possui contatos. Mova os contatos primeiro.")
       ELSE \E transportOk \in BOOLEAN :
            LET ok == StageDeleteOk(transportOk, stageId)
            IN  /\ calls' = << Call("pipeline_stages", "delete", stageId, Null, ok) >>
                /\ IF ok
                   THEN /\ dbStages' = StagesAfterDelete(dbStages, stageId)
                        /\ stages' = Rendered(StagesAfterFilter(stages, stageId))
                        /\ toast' = Sucesso("Etapa excluida!")
                   ELSE /\ UNCHANGED << dbStages, stages >>
                        /\ toast' = Erro("Erro ao excluir etapa")

\* the trash button of a stage card, rendered for non-default stages only
DeleteStage ==
    /\ ~ loading
    /\ \E i \in 1 .. Len(stages) :
          /\ DeleteButtonRendered(stages[i])
          /\ handleDeleteStage(stages[i].id)

----------------------------------------------------------------------------
(* handleAddStage *)

\* Math.max(...stages.map(s => s.position), 0)
maxPosition == MaxOf(PositionsOnBoard \cup { 0 })

\* the row inserted by handleAddStage
NewStageRow(newStageName) ==
    [ name |-> newStageName, position |-> maxPosition + 1, is_default |-> FALSE ]

handleAddStage(newStageName) ==
    /\ Ran("handleAddStage", << newStageName >>)
    /\ UNCHANGED << dbContacts, contacts, allContacts, loading >>
    /\ prompted' = Null
    /\ IF trim(newStageName) = ""
       THEN /\ UNCHANGED << dbStages, nextStageId, stages >>
            /\ calls' = << >>
            /\ toast' = NoToast
       ELSE \E ok \in { StageInsertOk(transportOk) : transportOk \in BOOLEAN } :
            /\ calls' = << Call("pipeline_stages", "insert", Null,
                                NewStageRow(newStageName), ok) >>
            /\ IF ok
               THEN /\ dbStages' = StagesAfterInsert(dbStages, nextStageId,
                                                     NewStageRow(newStageName))
                    /\ nextStageId' = nextStageId + 1
                    /\ stages' = Rendered(Append(stages, StageOf(dbStages', nextStageId)))
                    /\ toast' = Sucesso("Nova etapa adicionada!")
               ELSE /\ UNCHANGED << dbStages, nextStageId, stages >>
                    /\ toast' = Erro("Erro ao adicionar etapa")

\* "Adicionar" in the "Nova Etapa" dialog
AddStage ==
    /\ ~ loading
    /\ nextStageId <= Len(DefaultStageNames) + 1 + MaxNewStages
    /\ \E newStageName \in StageNameInputs :
          handleAddStage(newStageName)

\* the page mounts (again): useEffect(() => { if (user) loadData(); }, [user])
LoadData ==
    /\ user # Null
    /\ loadData

\* "Sair" in the header's menu: the session ends and useAuth().user becomes
\* null. The board stays as it is: the effect runs again for the changed
\* user and, the user being null, loads nothing.
SignOut ==
    /\ user # Null
    /\ now < MaxOps
    /\ now' = now + 1
    /\ event' = [ handler |-> "signOut", args |-> << >> ]
    /\ user' = Null
    /\ calls' = << >>
    /\ prompted' = Null
    /\ toast' = NoToast
    /\ UNCHANGED << dbVars, viewVars, pending >>

----------------------------------------------------------------------------

Next ==
    \/ LoadData
    \/ DragEnd
    \/ ContactStatusChange
    \/ RemoveContactFromPipeline
    \/ AddContactToStage
    \/ EditStageName
    \/ MoveStage
    \/ DeleteStage
    \/ AddStage

Spec == Init /\ [][Next]_vars

\* the session with its end: the operator may sign out at any time
NextSession ==
    \/ LoadData
    \/ DragEnd
    \/ ContactStatusChange
    \/ RemoveContactFromPipeline
    \/ AddContactToStage
    \/ EditStageName
    \/ MoveStage
    \/ DeleteStage
    \/ AddStage
    \/ SignOut

SpecSession == Init /\ [][NextSession]_vars

----------------------------------------------------------------------------
(* Signup: the trigger on_auth_user_created runs handle_new_user *)

\* before the signup: no row of the user in either table, no session
InitSignup ==
    /\ dbStages = << >>
    /\ dbContacts = << >>
    /\ nextStageId = 1
    /\ stages = << >>
    /\ contacts = << >>
    /\ allContacts = << >>
    /\ loading = TRUE
    /\ toast = NoToast
    /\ calls = << >>
    /\ prompted = Null
    /\ event = [ handler |-> "none", args |-> << >> ]
    /\ now = 0
    /\ user = Null
    /\ pending = << >>

\* AFTER INSERT ON auth.users: the five default stages are inserted for the
\* new user, who is then signed in.  The trigger is no run of a page handler.
handle_new_user ==
    /\ user = Null
    /\ DOMAIN dbStages = { }
    /\ dbStages' = SeededStages
    /\ nextStageId' = Len(SeededStages) + 1
    /\ user' = Some(Owner)
    /\ event' = [ handler |-> "handle_new_user", args |-> << >> ]
    /\ calls' = << >>
    /\ prompted' = Null
    /\ toast' = NoToast
    /\ UNCHANGED << dbContacts, viewVars, now, pending >>

\* a new user has no contact yet: the stage operations are those the board
\* offers
NextSignup ==
    \/ handle_new_user
    \/ LoadData
    \/ EditStageName
    \/ MoveStage
    \/ DeleteStage
    \/ AddStage

SpecSignup == InitSignup /\ [][NextSignup]_vars

----------------------------------------------------------------------------
(* The runs in which the persistence service refuses nothing *)

\* every insert, update and delete of the calls was carried out
WritesSucceeded(cs) == \A i \in 1 .. Len(cs) : cs[i].op # "select" => cs[i].ok

\* every call, the selects of the load included, was carried out
CallsSucceeded(cs) == \A i \in 1 .. Len(cs) : cs[i].ok

\* one operation at a time, every write succeeding; a load may fail
NextWritesSucceed ==
    \/ LoadData
    \/ DragEnd /\ WritesSucceeded(calls')
    \/ ContactStatusChange /\ WritesSucceeded(calls')
    \/ RemoveContactFromPipeline /\ WritesSucceeded(calls')
    \/ AddContactToStage /\ WritesSucceeded(calls')
    \/ EditStageName /\ WritesSucceeded(calls')
    \/ MoveStage /\ WritesSucceeded(calls')
    \/ DeleteStage /\ WritesSucceeded(calls')
    \/ AddStage /\ WritesSucceeded(calls')

SpecWritesSucceed == Init /\ [][NextWritesSucceed]_vars

\* one operation at a time, every call succeeding
NextNoFailure ==
    \/ LoadData /\ CallsSucceeded(calls')
    \/ DragEnd /\ CallsSucceeded(calls')
    \/ ContactStatusChange /\ CallsSucceeded(calls')
    \/ RemoveContactFromPipeline /\ CallsSucceeded(calls')
    \/ AddContactToStage /\ CallsSucceeded(calls')
    \/ EditStageName /\ CallsSucceeded(calls')
    \/ MoveStage /\ CallsSucceeded(calls')
    \/ DeleteStage /\ CallsSucceeded(calls')
    \/ AddStage /\ CallsSucceeded(calls')

SpecNoFailure == Init /\ [][NextNoFailure]_vars

----------------------------------------------------------------------------
(* Stage actions that overlap: handleMoveStage and handleAddStage are async
   and no button is disabled while a call is awaited, so a handler can be
   called while an earlier one waits; each computes from the stage list of
   the render in which it was called *)

\* a handler past its first lines: what it computed from the stage list it
\* was called with, and how far its calls got
MoveRequest(args, currentStage, targetStage) ==
    [ kind |-> "move", args |-> args, currentStage |-> currentStage,
      targetStage |-> targetStage, row |-> Null, written |-> 0, failed |-> FALSE ]

AddRequest(args, row) ==
    [ kind |-> "add", args |-> args, currentStage |-> Null, targetStage |-> Null,
      row |-> Some(row), written |-> 0, failed |-> FALSE ]

\* the waiting handlers but the i-th
Without(seq, i) ==
    [ k \in 1 .. (Len(seq) - 1) |-> IF k < i THEN seq[k] ELSE seq[k + 1] ]

\* a step of a handler that was called earlier
Resumed(handler, args) ==
    /\ event' = [ handler |-> handler, args |-> args ]
    /\ UNCHANGED << now, user >>

\* handleMoveStage up to its first await
beginMoveStage(stageId, direction) ==
    /\ Began("handleMoveStage", << stageId, direction >>)
    /\ UNCHANGED << dbVars, viewVars >>
    /\ calls' = << >>
    /\ prompted' = Null
    /\ toast' = NoToast
    /\ \E sortedStages \in { SortByPosition(stages) } :
       LET currentStage == Find(stages, { i \in 1 .. Len(stages) : stages[i].id = stageId })
           currentIndex == FindIndex({ i \in 1 .. Len(sortedStages) :
                                         sortedStages[i].id = stageId })
       IN  IF currentStage = Null \/ AtEdge(sortedStages, currentIndex, direction)
           THEN pending' = pending
           ELSE pending' =
                  Append(pending,
                         MoveRequest(<< stageId, direction >>, currentStage[1],
                                     sortedStages[TargetIndex(currentIndex, direction)]))

BeginMoveStage ==
    /\ ~ loading
    /\ Len(pending) < MaxPending
    /\ \E i \in 1 .. Len(stages), direction \in Directions :
          /\ MoveButtonEnabled(stages[i], direction)
          /\ beginMoveStage(stages[i].id, direction)

\* handleMoveStage: the first update returns
moveStageFirstWrite(i) ==
    /\ pending[i].kind = "move"
    /\ pending[i].written = 0
    /\ Resumed("handleMoveStage", pending[i].args)
    /\ UNCHANGED << dbContacts, nextStageId, viewVars, prompted, toast >>
    /\ \E ok1 \in BOOLEAN :
          /\ calls' = << Call("pipeline_stages", "update", pending[i].currentStage.id,
                              [ position |-> pending[i].targetStage.position ], ok1) >>
          /\ dbStages' = StagesAfterPosition(dbStages, pending[i].currentStage.id,
                                             pending[i].targetStage.position, ok1)
          /\ pending' = [ pending EXCEPT ![i].written = 1, ![i].failed = ~ ok1 ]

MoveStageFirstWrite == \E i \in 1 .. Len(pending) : moveStageFirstWrite(i)

\* handleMoveStage: the second update returns and the handler runs to its end
moveStageSecondWrite(i) ==
    /\ pending[i].kind = "move"
    /\ pending[i].written = 1
    /\ Resumed("handleMoveStage", pending[i].args)
    /\ UNCHANGED << dbContacts, nextStageId, contacts, allContacts, loading, prompted >>
    /\ \E ok2 \in BOOLEAN :
          /\ calls' = << Call("pipeline_stages", "update", pending[i].targetStage.id,
                              [ position |-> pending[i].currentStage.position ], ok2) >>
          /\ dbStages' = StagesAfterPosition(dbStages, pending[i].targetStage.id,
                                             pending[i].currentStage.position, ok2)
          /\ IF MoveStageSucceeded(~ pending[i].failed, ok2)
             THEN /\ stages' = Rendered(StagesAfterSwap(stages, pending[i].currentStage,
                                                        pending[i].targetStage))
                  /\ toast' = Sucesso("Posicao da etapa atualizada!")
             ELSE /\ stages' = stages
                  /\ toast' = Erro("Erro ao mover etapa")
    /\ pending' = Without(pending, i)

MoveStageSecondWrite == \E i \in 1 .. Len(pending) : moveStageSecondWrite(i)

\* handleAddStage up to its await
beginAddStage(newStageName) ==
    /\ Began("handleAddStage", << newStageName >>)
    /\ UNCHANGED << dbVars, viewVars >>
    /\ calls' = << >>
    /\ prompted' = Null
    /\ toast' = NoToast
    /\ IF trim(newStageName) = ""
       THEN pending' = pending
       ELSE pending' = Append(pending, AddRequest(<< newStageName >>,
                                                   NewStageRow(newStageName)))

\* the inserts waiting
PendingAdds == Cardinality({ i \in 1 .. Len(pending) : pending[i].kind = "add" })

BeginAddStage ==
    /\ ~ loading
    /\ Len(pending) < MaxPending
    /\ nextStageId + PendingAdds <= Len(DefaultStageNames) + 1 + MaxNewStages
    /\ \E newStageName \in StageNameInputs :
          beginAddStage(newStageName)

\* handleAddStage: the insert returns and the handler runs to its end
completeAddStage(i) ==
    /\ pending[i].kind = "add"
    /\ Resumed("handleAddStage", pending[i].args)
    /\ UNCHANGED << dbContacts, contacts, allContacts, loading, prompted >>
    /\ \E ok \in { StageInsertOk(transportOk) : transportOk \in BOOLEAN } :
          /\ calls' = << Call("pipeline_stages", "insert", Null, pending[i].row[1], ok) >>
          /\ IF ok
             THEN /\ dbStages' = StagesAfterInsert(dbStages, nextStageId, pending[i].row[1])
                  /\ nextStageId' = nextStageId + 1
                  /\ stages' = Rendered(Append(stages, StageOf(dbStages', nextStageId)))
                  /\ toast' = Sucesso("Nova etapa adicionada!")
             ELSE /\ UNCHANGED << dbStages, nextStageId, stages >>
                  /\ toast' = Erro("Erro ao adicionar etapa")
    /\ pending' = Without(pending, i)

CompleteAddStage == \E i \in 1 .. Len(pending) : completeAddStage(i)

\* the page mounts while no handler waits
LoadDataAtRest ==
    /\ pending = << >>
    /\ LoadData

\* stage actions called at any time, every call succeeding
NextOverlap ==
    \/ LoadDataAtRest /\ CallsSucceeded(calls')
    \/ BeginMoveStage
    \/ MoveStageFirstWrite /\ CallsSucceeded(calls')
    \/ MoveStageSecondWrite /\ CallsSucceeded(calls')
    \/ BeginAddStage
    \/ CompleteAddStage /\ CallsSucceeded(calls')

SpecOverlap == Init /\ [][NextOverlap]_vars

\* the same steps, a stage action being called only when none waits
NextInTurn ==
    \/ LoadDataAtRest /\ CallsSucceeded(calls')
    \/ pending = << >> /\ BeginMoveStage
    \/ MoveStageFirstWrite /\ CallsSucceeded(calls')
    \/ MoveStageSecondWrite /\ CallsSucceeded(calls')
    \/ pending = << >> /\ BeginAddStage
    \/ CompleteAddStage /\ CallsSucceeded(calls')

SpecInTurn == Init /\ [][NextInTurn]_vars

----------------------------------------------------------------------------
(* Vocabulary of the properties *)

\* the handlers that move a contact to a stage
MoveHandlers == { "handleDragEnd", "handleContactStatusChange" }

\* the handlers behind the board's operations (everything but the load)
BoardOperations ==
    MoveHandlers \cup { "handleRemoveContactFromPipeline", "addContactToStage",
                        "handleEditStageName", "handleMoveStage", "handleDeleteStage",
                        "handleAddStage" }

\* the step is a run of moveContact(c, s)
MovedContact(c, s) ==
    event'.handler \in MoveHandlers /\ event'.args = << c, Some(s) >>

\* the step is a run of reposition(s, direction)
Repositioned(s, direction) ==
    event'.handler = "handleMoveStage" /\ event'.args = << s, direction >>

\* the step is a run of deleteStage(s)
DeletedStage(s) ==
    event'.handler = "handleDeleteStage" /\ event'.args = << s >>

\* the stage lists and contact lists, as sets of rows
StagesView == { stages[i] : i \in 1 .. Len(stages) }
ContactsView == { contacts[i] : i \in 1 .. Len(contacts) }
PersistedStageRows == { StageOf(dbStages, s) : s \in DOMAIN dbStages }
PersistedContactRows == { ContactOf(dbContacts, c) : c \in DOMAIN dbContacts }

\* the local view shows exactly the persisted rows
ViewEqualsPersisted ==
    /\ Len(stages) = Cardinality(DOMAIN dbStages)
    /\ StagesView = PersistedStageRows
    /\ Len(contacts) = Cardinality(DOMAIN dbContacts)
    /\ ContactsView = PersistedContactRows

\* the handler that ran last reported an error
ReportedError == toast.variant = "destructive"

----------------------------------------------------------------------------
(* Properties of reposition *)

\* C1: after any reposition call, also one in which either of its two
\* position writes fails, the persisted positions of the two rows it writes
\* (the target stage and its neighbour) are either both exchanged or both
\* unchanged: never only one of the two rows updated.
C1_RepositionAtomic ==
    [][ event'.handler = "handleMoveStage" /\ calls' # << >>
        => LET target == calls'[1].id
               neighbour == calls'[2].id
           IN  \/ /\ dbStages'[target].position = dbStages[neighbour].position
                  /\ dbStages'[neighbour].position = dbStages[target].position
               \/ /\ dbStages'[target].position = dbStages[target].position
                  /\ dbStages'[neighbour].position = dbStages[neighbour].position
      ]_vars

----------------------------------------------------------------------------
(* Properties of the local view *)

\* C2: after every completed board operation, whether its writes succeeded
\* or failed, the local view of stages and contacts equals the persisted
\* state, and an operation that reported a failure left both unchanged.
C2_ViewEqualsPersistedAfterOperation ==
    [][ event'.handler \in BoardOperations /\ ViewEqualsPersisted
        => /\ ViewEqualsPersisted'
           /\ ReportedError' => /\ dbStages' = dbStages
                                /\ dbContacts' = dbContacts
                                /\ stages' = stages
                                /\ contacts' = contacts
      ]_vars

----------------------------------------------------------------------------
(* Properties of moveContact *)

\* the board's won stage: the first stage of its list named 'Venda Ganha'
WonStage(s) ==
    \E i \in 1 .. Len(stages) :
        /\ stages[i].id = s
        /\ stages[i].name = VendaGanha
        /\ \A j \in 1 .. (i - 1) : stages[j].name # VendaGanha

\* the price of the contact's associated property; 0 when it has none
PriceOf(c) ==
    IF dbContacts[c].properties = Null THEN 0 ELSE dbContacts[c].properties[1].price

\* the answers to the prompt whose value is not above 0: Cancel, nothing
\* typed, no number, zero, a negative number
NotPositiveAnswers == { Null, Some(""), Some("abc"), Some("0"), Some("-5") }

\* C3: moveContact(c, wonStage) for a contact whose property is absent or
\* priced 0 asks the operator for the value; when the answer is not above 0
\* (cancelled, empty, non-numeric, zero or negative) the contact's stage,
\* sale_date and sale_value stay as they were, no write is issued and the
\* error "invalid sale value" is reported.
C3_InvalidSaleValueAborts ==
    [][ \A c \in ContactIds, s \in StageIdsOnBoard :
          MovedContact(c, s) /\ WonStage(s) /\ PriceOf(c) = 0
          => /\ prompted' # Null
             /\ prompted'[1] \in NotPositiveAnswers
                  => /\ dbContacts' = dbContacts
                     /\ contacts' = contacts
                     /\ calls' = << >>
                     /\ toast' = Erro("Valor de venda invalido")
      ]_vars

\* a contact without a property was moved to the won stage, the prompt was
\* cancelled or answered with no positive number, and the move was refused
C3_Witness ==
    /\ event.handler \in MoveHandlers
    /\ dbContacts[event.args[1]].properties = Null
    /\ prompted # Null
    /\ prompted[1] \in NotPositiveAnswers
    /\ calls = << >>
    /\ toast = Erro("Valor de venda invalido")

\* C4: moveContact(c, wonStage) for a contact whose property has price > 0
\* never prompts the operator, and its one update carries sale_value equal
\* to that price; once the update is stored, the persisted and the local
\* sale_value of c are that price.
C4_PricedContactSoldAtPrice ==
    [][ \A c \in ContactIds, s \in StageIdsOnBoard :
          MovedContact(c, s) /\ WonStage(s) /\ PriceOf(c) > 0
          => /\ prompted' = Null
             /\ Len(calls') = 1
             /\ calls'[1].id = c
             /\ calls'[1].data = [ stage_id |-> Some(s), sale_date |-> Some(now'),
                                   sale_value |-> Some(PriceOf(c)) ]
             /\ calls'[1].ok
                  => /\ dbContacts'[c].sale_value = Some(PriceOf(c))
                     /\ \A i \in 1 .. Len(contacts') :
                          contacts'[i].id = c => contacts'[i].sale_value = Some(PriceOf(c))
      ]_vars

\* the contact with the property priced 350000.00 was moved to the won stage
\* without a prompt and is persisted as sold at that price
C4_Witness ==
    /\ event.handler \in MoveHandlers
    /\ PriceOf(event.args[1]) = Amount(350000)
    /\ prompted = Null
    /\ calls # << >>
    /\ calls[1].ok
    /\ dbContacts[event.args[1]].sale_value = Some(Amount(350000))
    /\ WonStage(dbContacts[event.args[1]].stage_id[1])

\* C5: moveContact(c, s) where s is not the won stage leaves the sale_date
\* and sale_value of every contact, persisted and local, as they were, and
\* its update carries the stage only; for every contact and every stage.
C5_OtherStageKeepsSaleFields ==
    [][ \A c \in ContactIds, s \in StageIdsOnBoard :
          MovedContact(c, s) /\ ~ WonStage(s)
          => /\ \A d \in ContactIds :
                  /\ dbContacts'[d].sale_date = dbContacts[d].sale_date
                  /\ dbContacts'[d].sale_value = dbContacts[d].sale_value
             /\ Len(contacts') = Len(contacts)
             /\ \A i \in 1 .. Len(contacts) :
                  /\ contacts'[i].sale_date = contacts[i].sale_date
                  /\ contacts'[i].sale_value = contacts[i].sale_value
             /\ \A k \in 1 .. Len(calls') : DOMAIN calls'[k].data = { "stage_id" }
      ]_vars

\* a contact that carries a sale stamp was moved to a stage other than the
\* won stage and still carries the stamp
C5_Witness ==
    /\ event.handler \in MoveHandlers
    /\ calls # << >>
    /\ calls[1].ok
    /\ DOMAIN calls[1].data = { "stage_id" }
    /\ dbContacts[event.args[1]].stage_id = event.args[2]
    /\ ~ WonStage(event.args[2][1])
    /\ dbContacts[event.args[1]].sale_date # Null
    /\ dbContacts[event.args[1]].sale_value # Null

\* C6: a move into the won stage issues at most one update, which carries
\* stage, sale_date and sale_value together: after it either the contact's
\* persisted stage is the won stage and both sale fields are stamped, or
\* (no write, or the write failed) none of its persisted fields changed.
C6_WonMoveIsOneUpdate ==
    [][ \A c \in ContactIds, s \in StageIdsOnBoard :
          MovedContact(c, s) /\ WonStage(s)
          => /\ Len(calls') <= 1
             /\ \A d \in ContactIds \ { c } : dbContacts'[d] = dbContacts[d]
             /\ \/ /\ Len(calls') = 1
                   /\ calls'[1].ok
                   /\ DOMAIN calls'[1].data = { "stage_id", "sale_date", "sale_value" }
                   /\ dbContacts'[c].stage_id = Some(s)
                   /\ dbContacts'[c].sale_date = Some(now')
                   /\ dbContacts'[c].sale_value # Null
                \/ /\ calls' = << >> \/ ~ calls'[1].ok
                   /\ dbContacts'[c] = dbContacts[c]
      ]_vars

\* the operator answered the prompt with 250000 and the contact is persisted
\* in the won stage with that value and the time of the move
C6_Witness ==
    /\ event.handler \in MoveHandlers
    /\ prompted = Some(Some("250000"))
    /\ calls # << >>
    /\ calls[1].ok
    /\ dbContacts[event.args[1]].stage_id = event.args[2]
    /\ dbContacts[event.args[1]].sale_date = Some(now)
    /\ dbContacts[event.args[1]].sale_value = Some(Amount(250000))

----------------------------------------------------------------------------
(* Properties of deleteStage *)

\* some contact's persisted stage is s
Referenced(s) == \E c \in DOMAIN dbContacts : dbContacts[c].stage_id = Some(s)

\* the notification that a stage with contacts cannot be deleted
ConflictError ==
    Erro("Nao e possivel excluir uma etapa que possui contatos. Mova os contatos primeiro.")

\* C7: deleteStage(s) reports the conflict error, issues no write and leaves
\* the persisted and the local stage set unchanged if any contact's stage is
\* s; otherwise it issues one delete of s which, once stored, removes exactly
\* s from the persisted and the local stage set, every other stage as it was
\* (a delete the service fails changes nothing and reports an error).
C7_DeleteStageConflictOrRemoval ==
    [][ \A s \in StageIdsOnBoard :
          DeletedStage(s)
          => IF Referenced(s)
             THEN /\ toast' = ConflictError
                  /\ calls' = << >>
                  /\ dbStages' = dbStages
                  /\ stages' = stages
             ELSE /\ Len(calls') = 1
                  /\ calls'[1].op = "delete"
                  /\ calls'[1].id = s
                  /\ IF calls'[1].ok
                     THEN /\ DOMAIN dbStages' = DOMAIN dbStages \ { s }
                          /\ \A t \in DOMAIN dbStages' : dbStages'[t] = dbStages[t]
                          /\ StagesView' = { r \in StagesView : r.id # s }
                          /\ Len(stages') = Len(stages) - 1
                          /\ ~ ReportedError'
                     ELSE /\ dbStages' = dbStages
                          /\ stages' = stages
                          /\ ReportedError'
      ]_vars

\* the delete of a stage that holds a contact was refused with the conflict
\* error, the stage still persisted and on the board
C7_Witness ==
    /\ event.handler = "handleDeleteStage"
    /\ Referenced(event.args[1])
    /\ toast = ConflictError
    /\ calls = << >>
    /\ event.args[1] \in DOMAIN dbStages
    /\ event.args[1] \in StageIdsOnBoard

\* C8 (as stated): deleteStage on a stage with is_default = true fails with
\* a validation error: a run of the handler on any default stage of the
\* board reports an error and leaves the persisted stages as they were.
C8_DeleteOfDefaultFails ==
    \A i \in 1 .. Len(stages) :
        stages[i].is_default
        => ~ ENABLED ( /\ handleDeleteStage(stages[i].id)
                       /\ ~ ( ReportedError' /\ dbStages' = dbStages ) )

\* C8 (amended): the board offers the delete control for non-default stages
\* only, so deleteStage never runs on a default stage, and the five default
\* stages seeded at signup are persisted, still marked default, in every
\* reachable state.
C8_DefaultStagesPermanent ==
    /\ \A i \in DOMAIN SeededStages : i \in DOMAIN dbStages /\ dbStages[i].is_default
    /\ event.handler = "handleDeleteStage" => event.args[1] \notin DOMAIN SeededStages

\* the one added stage was deleted and the board shows the five default
\* stages, all persisted
C8_Witness ==
    /\ event.handler = "handleDeleteStage"
    /\ calls # << >>
    /\ calls[1].ok
    /\ Len(stages) = Len(DefaultStageNames)
    /\ \A i \in 1 .. Len(stages) : stages[i].is_default /\ stages[i].id \in DOMAIN dbStages

----------------------------------------------------------------------------
(* Properties of reposition, continued *)

\* the names and default flags on the board, by stage id
NamesView == { << stages[i].id, stages[i].name, stages[i].is_default >> : i \in 1 .. Len(stages) }

\* a run of reposition on stage s in this direction changes nothing,
\* whatever the service would return: no write, the persisted rows and the
\* view as they were, no error
RepositionIsNoOp(s, direction) ==
    \A sortedStages \in { SortByPosition(stages) } :
    \A ok1 \in BOOLEAN, ok2 \in BOOLEAN :
        \A outcome \in { MoveStageOutcome(sortedStages, s, direction, ok1, ok2) } :
            /\ outcome.calls = << >>
            /\ outcome.dbStages = dbStages
            /\ outcome.stages = stages
            /\ outcome.toast.variant # "destructive"

\* reposition(firstStage, up) and reposition(lastStage, down) are no-ops
EdgeRepositionIsNoOp ==
    stages # << >>
    => /\ RepositionIsNoOp(Rendered(stages)[1].id, "up")
       /\ RepositionIsNoOp(Rendered(stages)[Len(stages)].id, "down")

\* C9: every reposition call, whatever its writes return, leaves the set of
\* stages and each stage's name (and default flag) unchanged, persisted and
\* on the board, and leaves the contacts alone: only positions change; and
\* in every reachable state reposition(firstStage, up) and
\* reposition(lastStage, down) change nothing and report no error.
C9_RepositionKeepsStagesAndNames ==
    /\ [] EdgeRepositionIsNoOp
    /\ [][ event'.handler = "handleMoveStage"
             => /\ DOMAIN dbStages' = DOMAIN dbStages
                /\ \A s \in DOMAIN dbStages :
                     /\ dbStages'[s].name = dbStages[s].name
                     /\ dbStages'[s].is_default = dbStages[s].is_default
                /\ Len(stages') = Len(stages)
                /\ NamesView' = NamesView
                /\ dbContacts' = dbContacts
                /\ contacts' = contacts
         ]_vars

\* a reposition succeeded and the board's first column is no longer the
\* first seeded stage, every stage still persisted under its name
C9_Witness ==
    /\ event.handler = "handleMoveStage"
    /\ toast = Sucesso("Posicao da etapa atualizada!")
    /\ stages[1].id # 1
    /\ { << s, dbStages[s].name >> : s \in DOMAIN dbStages }
         = { << s, PersistedStages[s].name >> : s \in DOMAIN PersistedStages }

\* the index of stage s in a stage list
IndexOf(list, s) == CHOOSE i \in 1 .. Len(list) : list[i].id = s

\* the position of stage s in a stage list
PositionIn(list, s) == list[IndexOf(list, s)].position

\* C10: a successful reposition(stage, direction) exchanges the position
\* values of exactly two stages, the target and the stage adjacent to it in
\* position-sorted order in that direction, persisted and on the board, and
\* leaves the position of every other stage unchanged.
C10_RepositionExchangesTwoPositions ==
    [][ \A s \in StageIdsOnBoard, direction \in Directions :
          Repositioned(s, direction) /\ toast' = Sucesso("Posicao da etapa atualizada!")
          => LET sorted == SortByPosition(stages)
                 n == sorted[TargetIndex(IndexOf(sorted, s), direction)].id
             IN  /\ dbStages'[s].position = dbStages[n].position
                 /\ dbStages'[n].position = dbStages[s].position
                 /\ \A t \in DOMAIN dbStages \ { s, n } :
                      dbStages'[t].position = dbStages[t].position
                 /\ PositionIn(stages', s) = PositionIn(stages, n)
                 /\ PositionIn(stages', n) = PositionIn(stages, s)
                 /\ \A t \in StageIdsOnBoard \ { s, n } :
                      PositionIn(stages', t) = PositionIn(stages, t)
      ]_vars

\* from a state in which the view shows the persisted rows, a successful
\* reposition does exchange the two positions, persisted and on the board
RepositionExchangesFromConsistentView ==
    [][ \A s \in StageIdsOnBoard, direction \in Directions :
          /\ ViewEqualsPersisted
          /\ Repositioned(s, direction)
          /\ toast' = Sucesso("Posicao da etapa atualizada!")
          => LET sorted == SortByPosition(stages)
                 n == sorted[TargetIndex(IndexOf(sorted, s), direction)].id
             IN  /\ dbStages'[s].position = dbStages[n].position
                 /\ dbStages'[n].position = dbStages[s].position
                 /\ \A t \in DOMAIN dbStages \ { s, n } :
                      dbStages'[t].position = dbStages[t].position
                 /\ PositionIn(stages', s) = PositionIn(stages, n)
                 /\ PositionIn(stages', n) = PositionIn(stages, s)
      ]_vars

----------------------------------------------------------------------------
(* Properties of createStage *)

\* a stage name with a character other than white space
NonBlank(name) == name \notin { "", "   " }

\* the highest position among the owner's persisted stages; 0 if none
MaxPersistedPosition ==
    MaxOf({ dbStages[s].position : s \in DOMAIN dbStages } \cup { 0 })

\* the step is a run of createStage(owner, name)
CreatedStage(name) ==
    event'.handler = "handleAddStage" /\ event'.args = << name >>

\* the step stored exactly one new pipeline_stages row, every other row as
\* it was, and appended that row to the board
AddedOneStage ==
    /\ Cardinality(DOMAIN dbStages' \ DOMAIN dbStages) = 1
    /\ \A s \in DOMAIN dbStages : s \in DOMAIN dbStages' /\ dbStages'[s] = dbStages[s]
    /\ Len(stages') = Len(stages) + 1
    /\ StagesView' = StagesView \cup { StageOf(dbStages', s) :
                                         s \in DOMAIN dbStages' \ DOMAIN dbStages }

\* C11: createStage(owner, name) with a non-blank name issues one insert;
\* once stored it has added exactly one stage, persisted and on the board,
\* with that name, is_default = false and position = (the maximum position
\* of the owner's existing stages, or 0 if there are none) + 1.
C11_CreateStageAtMaxPositionPlusOne ==
    [][ \A name \in StageNameInputs :
          CreatedStage(name) /\ NonBlank(name)
          => /\ Len(calls') = 1
             /\ calls'[1].op = "insert"
             /\ calls'[1].ok
                  => /\ AddedOneStage
                     /\ \A s \in DOMAIN dbStages' \ DOMAIN dbStages :
                          /\ dbStages'[s].name = name
                          /\ dbStages'[s].is_default = FALSE
                          /\ dbStages'[s].position = MaxPersistedPosition + 1
      ]_vars

\* when the board shows the persisted rows, a stored createStage does give
\* the new stage the position after the highest persisted one
CreateStageFromConsistentView ==
    [][ \A name \in StageNameInputs :
          CreatedStage(name) /\ NonBlank(name) /\ ViewEqualsPersisted /\ calls'[1].ok
          => /\ AddedOneStage
             /\ \A s \in DOMAIN dbStages' \ DOMAIN dbStages :
                  /\ dbStages'[s].name = name
                  /\ dbStages'[s].is_default = FALSE
                  /\ dbStages'[s].position = MaxPersistedPosition + 1
      ]_vars

\* C12: createStage with an empty or whitespace-only name fails with a
\* validation error that is reported to the operator, issues no write and
\* adds no stage to the persisted or the local state.
C12_BlankStageNameIsRejected ==
    [][ \A name \in StageNameInputs :
          CreatedStage(name) /\ ~ NonBlank(name)
          => /\ ReportedError'
             /\ calls' = << >>
             /\ dbStages' = dbStages
             /\ stages' = stages
      ]_vars

\* createStage with an empty or whitespace-only name issues no write and
\* adds no stage; it shows no notification at all
BlankStageNameIsIgnored ==
    [][ \A name \in StageNameInputs :
          CreatedStage(name) /\ ~ NonBlank(name)
          => /\ toast' = NoToast
             /\ calls' = << >>
             /\ dbStages' = dbStages
             /\ stages' = stages
      ]_vars

----------------------------------------------------------------------------
(* Properties of renameStage *)

\* the step is a run of renameStage(s, newName)
RenamedStage(s, newName) ==
    event'.handler = "handleEditStageName" /\ event'.args = << s, newName >>

\* every stage, persisted and on the board, has a non-empty name
StageNamesNonEmpty ==
    /\ \A s \in DOMAIN dbStages : dbStages[s].name # ""
    /\ \A i \in 1 .. Len(stages) : stages[i].name # ""

\* C13: renameStage(stageId, newName) with an empty name fails with a
\* validation error and leaves the stage's name unchanged, persisted and on
\* the board; consequently every stage has a non-empty name in every
\* reachable state.
C13_EmptyRenameIsRejected ==
    /\ [] StageNamesNonEmpty
    /\ [][ \A s \in StageIdsOnBoard :
             RenamedStage(s, "")
             => /\ ReportedError'
                /\ dbStages'[s].name = dbStages[s].name
                /\ NamesView' = NamesView
         ]_vars

----------------------------------------------------------------------------
(* Properties of the sale fields *)

\* the sale stamp of a row: both fields, one of them, or none
Stamped(row) == row.sale_date # Null /\ row.sale_value # Null
Unstamped(row) == row.sale_date = Null /\ row.sale_value = Null

\* sale_date and sale_value of every contact, persisted and on the board,
\* are both unset or both set
SaleFieldsSetTogether ==
    /\ \A c \in DOMAIN dbContacts : Stamped(dbContacts[c]) \/ Unstamped(dbContacts[c])
    /\ \A i \in 1 .. Len(contacts) : Stamped(contacts[i]) \/ Unstamped(contacts[i])

\* a step clears no sale field that was set, persisted or on the board
SaleFieldsNotCleared ==
    /\ \A c \in DOMAIN dbContacts :
         /\ dbContacts[c].sale_date # Null => dbContacts'[c].sale_date # Null
         /\ dbContacts[c].sale_value # Null => dbContacts'[c].sale_value # Null
    /\ \A i \in 1 .. Len(contacts), j \in 1 .. Len(contacts') :
         contacts[i].id = contacts'[j].id
         => /\ contacts[i].sale_date # Null => contacts'[j].sale_date # Null
            /\ contacts[i].sale_value # Null => contacts'[j].sale_value # Null

\* C14: in every reachable state each contact's sale_date and sale_value
\* are either both unset or both set, and no pipeline operation (a move to
\* another stage, a removal from the pipeline, a search-assign, a stage
\* rename, reposition, delete or add, a load) clears one that is set.
C14_SaleFieldsTogetherNeverCleared ==
    /\ [] SaleFieldsSetTogether
    /\ [][ SaleFieldsNotCleared ]_vars

\* a contact sold in this session was afterwards assigned to a stage through
\* the search dialog and still carries both sale fields
C14_Witness ==
    /\ event.handler = "addContactToStage"
    /\ calls # << >>
    /\ calls[1].ok
    /\ PersistedContacts[calls[1].id].sale_date = Null
    /\ Stamped(dbContacts[calls[1].id])
    /\ dbContacts[calls[1].id].stage_id = calls[1].data.stage_id
    /\ \E i \in 1 .. Len(contacts) : contacts[i].id = calls[1].id /\ Stamped(contacts[i])

----------------------------------------------------------------------------
(* Properties of removeFromPipeline *)

\* the step is a run of removeFromPipeline(c)
RemovedFromPipeline(c) ==
    event'.handler = "handleRemoveContactFromPipeline" /\ event'.args = << c >>

\* C15: removeFromPipeline(c) issues one update of c that carries the null
\* stage reference only; once stored, c's stage reference is null, persisted
\* and on the board, and c's sale_date and sale_value, every other contact
\* and every stage are as they were (a failed update changes nothing).
C15_RemoveFromPipelineOnlyUnassigns ==
    [][ \A c \in ContactIds :
          RemovedFromPipeline(c)
          => /\ Len(calls') = 1
             /\ calls'[1].id = c
             /\ calls'[1].data = [ stage_id |-> Null ]
             /\ dbContacts'[c] = IF calls'[1].ok
                                 THEN [ dbContacts[c] EXCEPT !.stage_id = Null ]
                                 ELSE dbContacts[c]
             /\ \A d \in ContactIds \ { c } : dbContacts'[d] = dbContacts[d]
             /\ Len(contacts') = Len(contacts)
             /\ \A i \in 1 .. Len(contacts) :
                  contacts'[i] = IF calls'[1].ok /\ contacts[i].id = c
                                 THEN [ contacts[i] EXCEPT !.stage_id = Null ]
                                 ELSE contacts[i]
             /\ dbStages' = dbStages
             /\ stages' = stages
      ]_vars

\* a contact that carries a sale stamp was removed from the pipeline: its
\* stage reference is null and the stamp is still there
C15_Witness ==
    /\ event.handler = "handleRemoveContactFromPipeline"
    /\ calls # << >>
    /\ calls[1].ok
    /\ dbContacts[event.args[1]].stage_id = Null
    /\ Stamped(dbContacts[event.args[1]])
    /\ \E i \in 1 .. Len(contacts) :
         /\ contacts[i].id = event.args[1]
         /\ contacts[i].stage_id = Null
         /\ Stamped(contacts[i])

----------------------------------------------------------------------------
(* Properties of sale recording *)

\* the amount of an answer to the prompt that is a number above 0
AnswerAmount(answer) ==
    CASE answer = Some("0.004") -> SubCent
      [] answer = Some("250000") -> Amount(250000)
      [] OTHER -> 0

\* the sale value the sale logic determines for contact c on this step: the
\* price of its property when above 0, else the operator's answer
NewSaleValue(c) ==
    IF PriceOf(c) > 0 THEN PriceOf(c) ELSE AnswerAmount(prompted'[1])

\* C16: for a contact that carries the sale stamp of an earlier sale and
\* stands outside the won stage, a move into the won stage runs the sale
\* logic again (the price is taken or the operator is asked, as on a first
\* entry); once the update is stored, sale_date is the time of this move and
\* sale_value the newly determined value, persisted and on the board, and
\* the row holds nothing of the earlier stamp.
C16_ReenteringWonStageOverwritesSale ==
    [][ \A c \in ContactIds, s \in StageIdsOnBoard :
          /\ MovedContact(c, s)
          /\ WonStage(s)
          /\ Stamped(dbContacts[c])
          /\ dbContacts[c].stage_id # Some(s)
          => /\ prompted' = Null <=> PriceOf(c) > 0
             /\ Len(calls') <= 1
             /\ IF calls' # << >> /\ calls'[1].ok
                THEN /\ dbContacts'[c] =
                          [ stage_id |-> Some(s), sale_date |-> Some(now'),
                            sale_value |-> Some(Decimal12_2(NewSaleValue(c))),
                            properties |-> dbContacts[c].properties ]
                     /\ dbContacts'[c].sale_date # dbContacts[c].sale_date
                     /\ \A i \in 1 .. Len(contacts') :
                          contacts'[i].id = c
                          => /\ contacts'[i].stage_id = Some(s)
                             /\ contacts'[i].sale_date = Some(now')
                             /\ contacts'[i].sale_value = Some(NewSaleValue(c))
                ELSE dbContacts'[c] = dbContacts[c]
      ]_vars

\* the contact sold for 100000.00 in an earlier session, which had left the
\* won stage, was moved into it again; the operator answered 250000 and the
\* persisted stamp is now this move's
C16_Witness ==
    /\ event.handler \in MoveHandlers
    /\ PersistedContacts[event.args[1]].sale_value = Some(Amount(100000))
    /\ PersistedContacts[event.args[1]].stage_id # event.args[2]
    /\ event.args[2] # Null
    /\ WonStage(event.args[2][1])
    /\ prompted = Some(Some("250000"))
    /\ calls # << >>
    /\ calls[1].ok
    /\ dbContacts[event.args[1]] =
         [ stage_id |-> event.args[2], sale_date |-> Some(now),
           sale_value |-> Some(Amount(250000)),
           properties |-> PersistedContacts[event.args[1]].properties ]

----------------------------------------------------------------------------
(* Properties of the drag-and-drop input *)

\* the step is the end of a drag of card c over the given target
DragEnded(c, over) ==
    event'.handler = "handleDragEnd" /\ event'.args = << c, over >>

\* the drag ended outside any valid stage target: over nothing, or over
\* something that is not one of the owner's stages
OutsideAnyStage(over) == over = Null \/ over[1] \notin DOMAIN dbStages

\* C17: a drag that ends outside any valid stage target (no drop target, or
\* a target that is not one of the owner's stages) is a no-op: no
\* persistence write is issued and no contact's stage or sale fields change,
\* persisted or on the board.
C17_DropOutsideStageIsNoOp ==
    [][ \A c \in ContactIds, over \in { Null } \cup { Some(t) : t \in DOMAIN dbStages \cup { OtherId } } :
          DragEnded(c, over) /\ OutsideAnyStage(over)
          => /\ calls' = << >>
             /\ dbContacts' = dbContacts
             /\ contacts' = contacts
      ]_vars

\* a drag that ends outside any valid stage target changes no contact,
\* persisted or on the board; with no drop target it also issues no write
\* and shows nothing
DropOutsideStageChangesNoContact ==
    [][ \A c \in ContactIds, over \in { Null } \cup { Some(t) : t \in DOMAIN dbStages \cup { OtherId } } :
          DragEnded(c, over) /\ OutsideAnyStage(over)
          => /\ dbContacts' = dbContacts
             /\ contacts' = contacts
             /\ over = Null => calls' = << >> /\ toast' = NoToast
      ]_vars

----------------------------------------------------------------------------
(* Properties of search-and-assign *)

\* the step is a run of search-and-assign with this query and this stage
SearchAssigned(query, s) ==
    event'.handler = "addContactToStage" /\ event'.args = << query, Some(s) >>

\* the contacts whose name contains the query, letter case ignored: "MA" is
\* in Maria and in Omar, "an" in Ana, "xyz" in no name
MatchingContacts(query) ==
    CASE query = << "M", "A" >> -> { 1, 2 }
      [] query = << "a", "n" >> -> { 3 }
      [] OTHER -> { }

\* the places in the loaded contact list of the contacts the query matches
MatchingPlaces(query) ==
    { i \in 1 .. Len(allContacts) : allContacts[i].id \in MatchingContacts(query) }

\* the first contact, in load order, that the query matches
FirstMatch(query) ==
    allContacts[CHOOSE i \in MatchingPlaces(query) :
                    \A j \in MatchingPlaces(query) : i <= j].id

\* C18: search-and-assign with a query and an operator-selected stage
\* issues one update that moves the first contact, in load order, whose name
\* contains the query as a case-insensitive substring to that stage (once
\* stored its stage is the selected one, persisted and on the board, and
\* nothing else changed); if no contact matches it reports "not found",
\* issues no write and changes no state.
C18_SearchAssignMovesFirstMatch ==
    [][ \A query \in SearchInputs \ { << >> }, s \in StageIdsOnBoard :
          SearchAssigned(query, s)
          => IF MatchingPlaces(query) = { }
             THEN /\ toast' = Erro("Contato nao encontrado")
                  /\ calls' = << >>
                  /\ UNCHANGED << dbVars, viewVars >>
             ELSE /\ Len(calls') = 1
                  /\ calls'[1].id = FirstMatch(query)
                  /\ calls'[1].data = [ stage_id |-> Some(s) ]
                  /\ UNCHANGED << dbStages, stages, allContacts >>
                  /\ \A d \in ContactIds :
                       dbContacts'[d] = IF calls'[1].ok /\ d = FirstMatch(query)
                                        THEN [ dbContacts[d] EXCEPT !.stage_id = Some(s) ]
                                        ELSE dbContacts[d]
                  /\ Len(contacts') = Len(contacts)
                  /\ \A i \in 1 .. Len(contacts) :
                       contacts'[i] =
                         IF calls'[1].ok /\ contacts[i].id = FirstMatch(query)
                         THEN [ contacts[i] EXCEPT !.stage_id = Some(s) ]
                         ELSE contacts[i]
      ]_vars

\* the query "MA", which Maria and Omar both match, moved Maria, the first
\* of the two in load order, to the selected stage and left Omar where he was
C18_Witness ==
    /\ event.handler = "addContactToStage"
    /\ event.args[1] = << "M", "A" >>
    /\ calls # << >>
    /\ calls[1].ok
    /\ calls[1].id = 1
    /\ dbContacts[1].stage_id = event.args[2]
    /\ dbContacts[1].stage_id # PersistedContacts[1].stage_id
    /\ dbContacts[2].stage_id = PersistedContacts[2].stage_id
    /\ dbContacts[2].stage_id # event.args[2]

\* no contact matches the query "xyz": "not found" was reported and nothing
\* was written
SearchNotFoundReached ==
    /\ event.handler = "addContactToStage"
    /\ event.args[1] = << "x", "y", "z" >>
    /\ event.args[2] # Null
    /\ toast = Erro("Contato nao encontrado")
    /\ calls = << >>

----------------------------------------------------------------------------
(* Properties of the won stage *)

\* the step ran sale recording: the operator was asked for the value, or
\* the move was refused for its value, or its update carries the sale stamp
SaleRecordingRan ==
    \/ prompted' # Null
    \/ toast' = Erro("Valor de venda invalido")
    \/ \E k \in 1 .. Len(calls') :
         { "sale_date", "sale_value" } \cap DOMAIN calls'[k].data # { }

\* the stages of the board that carry the name 'Venda Ganha'
StagesNamedVendaGanha ==
    { stages[i].id : i \in { j \in 1 .. Len(stages) : stages[j].name = VendaGanha } }

\* C19: moveContact(c, s) treats s as the won stage, and so runs sale
\* recording, exactly when the name of s is "Venda Ganha": in every state
\* reached by renames and additions of stages, also one in which more than
\* one stage carries that name.
C19_WonStageIsTheStageNamedVendaGanha ==
    [][ \A c \in ContactIds, s \in StageIdsOnBoard :
          MovedContact(c, s)
          => ( SaleRecordingRan <=> dbStages[s].name = VendaGanha )
      ]_vars

\* while at most one stage carries the name, sale recording runs exactly
\* for the moves into the stage of that name, also after renames
SaleRecordingByNameWhileUnique ==
    [][ \A c \in ContactIds, s \in StageIdsOnBoard :
          MovedContact(c, s) /\ Cardinality(StagesNamedVendaGanha) <= 1
          => ( SaleRecordingRan <=> dbStages[s].name = VendaGanha )
      ]_vars

\* with several stages of the name, sale recording runs for the first of
\* them on the board only
SaleRecordingForFirstNamedOnly ==
    [][ \A c \in ContactIds, s \in StageIdsOnBoard :
          MovedContact(c, s) => ( SaleRecordingRan <=> WonStage(s) )
      ]_vars

----------------------------------------------------------------------------
(* Referential integrity of the contact assignment *)

\* each contact's stage reference is null or the id of a stage that exists:
\* among the persisted rows, and among the stages and cards of the board
StageReferencesResolve ==
    /\ \A c \in DOMAIN dbContacts :
         \/ dbContacts[c].stage_id = Null
         \/ dbContacts[c].stage_id[1] \in DOMAIN dbStages
    /\ \A i \in 1 .. Len(contacts) :
         \/ contacts[i].stage_id = Null
         \/ contacts[i].stage_id[1] \in StageIdsOnBoard

\* a step removes no stage that a contact references, persisted or on the
\* board
NoReferencedStageRemoved ==
    /\ \A s \in DOMAIN dbStages \ DOMAIN dbStages' : ~ Referenced(s)
    /\ event'.handler = "handleDeleteStage"
         => \A s \in StageIdsOnBoard \ StageIdsOnBoard' :
                \A i \in 1 .. Len(contacts) : contacts[i].stage_id # Some(s)

\* C20: in every reachable state each contact's stage reference is either
\* null or the id of a stage that currently exists, and no step deletes a
\* stage while a contact references it.
C20_StageReferencesResolve ==
    /\ [] StageReferencesResolve
    /\ [][ NoReferencedStageRemoved ]_vars

\* the added stage, which held a contact when the session began, was deleted
\* after that contact had been moved to another stage, which exists
C20_Witness ==
    /\ event.handler = "handleDeleteStage"
    /\ calls # << >>
    /\ calls[1].ok
    /\ event.args[1] \notin DOMAIN dbStages
    /\ \E c \in DOMAIN dbContacts :
         /\ PersistedContacts[c].stage_id = Some(event.args[1])
         /\ dbContacts[c].stage_id # Null
         /\ dbContacts[c].stage_id[1] \in DOMAIN dbStages

----------------------------------------------------------------------------
(* Properties of the session *)

\* the pipeline operations: the load and the board's operations
PipelineOperations == BoardOperations \cup { "loadData" }

\* C21: when the current user is null, every pipeline operation (load,
\* move, remove, search-assign, add, rename, reposition or delete of a
\* stage) is a no-op: it issues no persistence call and changes neither the
\* persisted rows nor the board.
C21_NoUserNoOperation ==
    [][ user = Null /\ event'.handler \in PipelineOperations
        => /\ calls' = << >>
           /\ UNCHANGED << dbVars, viewVars >>
      ]_vars

\* without a user nothing is loaded: no load runs, and a page that mounts
\* signed out stays behind its spinner
NoLoadWithoutUser ==
    [][ user = Null => event'.handler # "loadData" ]_vars

----------------------------------------------------------------------------
(* C22: the order of the stages shown *)

\* the stage cards ascend by position
AscendingByPosition ==
    \A i \in 1 .. Len(stages) : \A j \in 1 .. Len(stages) :
        i < j => stages[i].position <= stages[j].position

\* ids are handed out in insertion order (the trigger inserts the defaults in
\* the order of its VALUES list): of two cards of equal position, the one
\* inserted first stands first
TiesInInsertionOrder ==
    \A i \in 1 .. Len(stages) : \A j \in 1 .. Len(stages) :
        i < j /\ stages[i].position = stages[j].position
            => stages[i].id < stages[j].id

\* C22: the stages shown on the board are ordered by position ascending, and
\* stages of equal position by insertion order, after any sequence of
\* create, rename, reposition and delete operations
C22_StagesByPositionThenInsertion ==
    AscendingByPosition /\ TiesInInsertionOrder

\* the first half alone: the cards always ascend by position
StagesShownAscendByPosition == AscendingByPosition

\* two cards of equal position are on the board
TiedStagesShown ==
    \E i \in 1 .. Len(stages) : \E j \in 1 .. Len(stages) :
        i < j /\ stages[i].position = stages[j].position

----------------------------------------------------------------------------
(* C23: the stages seeded at signup *)

\* the rows of pipeline_stages with the given name
RowsNamed(rows, name) == { s \in DOMAIN rows : rows[s].name = name }

\* the positions of the rows
PositionsOf(rows) == { rows[s].position : s \in DOMAIN rows }

\* exactly five rows, all default, at the positions 1..5, each position held
\* by one row, and one row named 'Venda Ganha'
FiveDefaultStages(rows) ==
    /\ Cardinality(DOMAIN rows) = 5
    /\ \A s \in DOMAIN rows : rows[s].is_default
    /\ PositionsOf(rows) = 1 .. 5
    /\ \A s \in DOMAIN rows : \A t \in DOMAIN rows :
          rows[s].position = rows[t].position => s = t
    /\ Cardinality(RowsNamed(rows, VendaGanha)) = 1

\* C23: user signup creates exactly five stages for the new user, all with
\* is_default = true, with distinct positions 1..5, and exactly one of them
\* named "Venda Ganha"
C23_SignupSeedsFiveDefaultStages ==
    [][ event'.handler = "handle_new_user"
        => /\ DOMAIN dbStages = { }
           /\ FiveDefaultStages(dbStages')
      ]_vars

\* the signup has just run
C23_Witness ==
    /\ event.handler = "handle_new_user"
    /\ user = Some(Owner)
    /\ Cardinality(DOMAIN dbStages) = 5

----------------------------------------------------------------------------
(* C24: the contacts in the won stage *)

\* the board's three ways of putting a contact into a stage
PlacingHandlers == MoveHandlers \cup { "addContactToStage" }

\* the step is a run of one of the given handlers whose update put contact c
\* into stage s
PlacedInStage(handlers, c, s) ==
    /\ event'.handler \in handlers
    /\ calls' # << >>
    /\ calls'[1].ok
    /\ calls'[1].id = c
    /\ dbContacts'[c].stage_id = Some(s)

\* contact c carries a sale stamp, persisted and on the board, after the step
StampedAfter(c) ==
    /\ Stamped(dbContacts'[c])
    /\ \A i \in 1 .. Len(contacts') : contacts'[i].id = c => Stamped(contacts'[i])

\* C24: every contact whose current stage is the won stage has sale_date and
\* sale_value set, whichever board path put it there (drag-and-drop, the
\* status-change control, or search-and-assign)
C24_WonStageContactsAreStamped ==
    [][ \A c \in ContactIds, s \in StageIdsOnBoard :
          PlacedInStage(PlacingHandlers, c, s) /\ WonStage(s) => StampedAfter(c)
      ]_vars

\* the same of drag-and-drop and the status-change control alone
WonStageContactsStampedByMove ==
    [][ \A c \in ContactIds, s \in StageIdsOnBoard :
          PlacedInStage(MoveHandlers, c, s) /\ WonStage(s) => StampedAfter(c)
      ]_vars

----------------------------------------------------------------------------
(* C25: the positions of the stages *)

\* no two rows hold the same position
PositionsDistinct(rows) ==
    \A s \in DOMAIN rows : \A t \in DOMAIN rows :
        rows[s].position = rows[t].position => s = t

\* C25: when operations are issued one at a time and every write succeeds,
\* the positions of the owner's stages are pairwise distinct in every
\* reachable state, under any sequence of createStage, reposition and
\* deleteStage from the seeded defaults
C25_PositionsPairwiseDistinct == PositionsDistinct(dbStages)

\* the same where the loads succeed as well
PositionsDistinctWithoutFailure ==
    /\ PositionsDistinct(dbStages)
    /\ \A i \in 1 .. Len(stages) : \A j \in 1 .. Len(stages) :
          stages[i].position = stages[j].position => i = j

----------------------------------------------------------------------------
(* C26: stage actions that overlap *)

\* the stage list of the board shows exactly the persisted stages
StageListEqualsPersisted ==
    /\ Len(stages) = Cardinality(DOMAIN dbStages)
    /\ StagesView = PersistedStageRows

\* every stage action that was called has run to its end
AllCompleted == ~ loading /\ pending = << >>

\* C26: when a second stage action (reposition or add stage) is started
\* before an earlier one has completed, so that it computes from the stage
\* list not yet updated, then once both have completed the persisted
\* positions are pairwise distinct and the local stage list equals the
\* persisted one
C26_OverlappingStageActionsConsistent ==
    AllCompleted => PositionsDistinct(dbStages) /\ StageListEqualsPersisted

\* the same where each stage action is called after the earlier one's end
StageActionsInTurnConsistent ==
    AllCompleted => StageListEqualsPersisted /\ PositionsDistinct(dbStages)

\* the persisted positions alone
OverlappingStageActionsKeepPositionsDistinct ==
    AllCompleted => PositionsDistinct(dbStages)

\* the stage list alone
OverlappingStageActionsKeepViewPersisted ==
    AllCompleted => StageListEqualsPersisted

----------------------------------------------------------------------------
(* C27: drag-and-drop and the status-change control *)

\* what a move leaves behind: the update it issued (none, or the call with
\* its data and outcome), the operator's answer, the persisted contacts and
\* the contacts on the board
MoveResult == << calls', prompted', dbContacts', contacts' >>

\* handleContactStatusChange(c, s) can end with the given result
StatusChangeYields(c, s, result) ==
    ENABLED ( /\ handleContactStatusChange(c, s)
              /\ MoveResult = result )

\* handleDragEnd of card c dropped on stage s can end with the given result
DragEndYields(c, s, result) ==
    ENABLED ( /\ handleDragEnd(c, Some(s))
              /\ MoveResult = result )

\* C27: the drag-and-drop path and the status-change control are equivalent:
\* in every state, for every contact and target stage and the same answer of
\* the operator, whatever handleDragEnd issues and leaves as the contact's
\* state, persisted and on the board, handleContactStatusChange issues and
\* leaves too, and the other way round
C27_DragAndStatusChangeEquivalent ==
    [][ \A c \in ContactIdsOnBoard, s \in StageIdsOnBoard :
          \E result \in { MoveResult } :
             /\ event' = [ handler |-> "handleDragEnd", args |-> << c, Some(s) >> ]
                  => StatusChangeYields(c, s, result)
             /\ event' = [ handler |-> "handleContactStatusChange",
                           args |-> << c, Some(s) >> ]
                  => DragEndYields(c, s, result)
      ]_vars

\* a card was dropped on the won stage, the operator answered 250000 and the
\* sale was stored
C27_Witness ==
    /\ event.handler = "handleDragEnd"
    /\ event.args[2] # Null
    /\ WonStage(event.args[2][1])
    /\ prompted = Some(Some("250000"))
    /\ calls # << >>
    /\ calls[1].ok
    /\ dbContacts[event.args[1]].sale_value = Some(Amount(250000))

----------------------------------------------------------------------------
(* C28: a move to the stage the contact stands in *)

\* the persisted stage and sale fields of contact c
StageAndSale(rows, c) ==
    << rows[c].stage_id, rows[c].sale_date, rows[c].sale_value >>

\* C28: moving a contact to the stage it already occupies changes none of
\* its persisted fields (stage, sale_date, sale_value), for every stage
\* including the won stage
C28_MoveToOwnStageChangesNothing ==
    [][ \A c \in ContactIds, s \in StageIdsOnBoard :
          MovedContact(c, s) /\ dbContacts[c].stage_id = Some(s)
              => StageAndSale(dbContacts', c) = StageAndSale(dbContacts, c)
      ]_vars

\* the same for every stage but the won stage
MoveToOwnOtherStageChangesNothing ==
    [][ \A c \in ContactIds, s \in StageIdsOnBoard :
          MovedContact(c, s) /\ dbContacts[c].stage_id = Some(s) /\ ~ WonStage(s)
              => StageAndSale(dbContacts', c) = StageAndSale(dbContacts, c)
      ]_vars

----------------------------------------------------------------------------
(* C29: the sale values the board sets *)

\* the step is a board operation that leaves another persisted sale_value
\* for contact c
SaleValueSet(c) ==
    /\ event'.handler \in BoardOperations
    /\ dbContacts'[c].sale_value # dbContacts[c].sale_value

\* C29: whenever a contact's sale_value is set by a board operation, it is
\* strictly greater than 0
C29_SaleValueSetIsPositive ==
    [][ \A c \in ContactIds :
          SaleValueSet(c)
              => /\ dbContacts'[c].sale_value # Null
                 /\ dbContacts'[c].sale_value[1] > 0
      ]_vars

\* what the handler puts into its update is above 0: the value it sends and
\* shows on the board
SaleValueSentIsPositive ==
    [][ \A i \in 1 .. Len(calls') :
          /\ calls'[i].table = "contacts"
          /\ calls'[i].op = "update"
          /\ "sale_value" \in DOMAIN calls'[i].data
          => /\ calls'[i].data.sale_value # Null
             /\ calls'[i].data.sale_value[1] > 0
      ]_vars

----------------------------------------------------------------------------
(* C30: what a contact move leaves alone *)

\* the step is a move of contact c: its card was dropped, its status select
\* was used, or it is the first match of a search-and-assign
ContactMoved(c) ==
    \/ event'.handler \in MoveHandlers /\ event'.args[1] = c
    \/ /\ event'.handler = "addContactToStage"
       /\ MatchingPlaces(event'.args[1]) # { }
       /\ FirstMatch(event'.args[1]) = c

\* C30: a contact move (drag-and-drop, status change or search-assign) of
\* contact c modifies only c: every other contact's stage and sale fields,
\* and every stage's name, position and is_default, are unchanged, persisted
\* and on the board
C30_ContactMoveModifiesOnlyThatContact ==
    [][ \A c \in ContactIds :
          ContactMoved(c)
              => /\ dbStages' = dbStages
                 /\ stages' = stages
                 /\ \A d \in ContactIds \ { c } : dbContacts'[d] = dbContacts[d]
                 /\ Len(contacts') = Len(contacts)
                 /\ \A i \in 1 .. Len(contacts) :
                       contacts[i].id # c => contacts'[i] = contacts[i]
      ]_vars

\* a search-and-assign has moved its first match; the other contacts are as
\* the earlier session left them, persisted and on the board
C30_Witness ==
    /\ event.handler = "addContactToStage"
    /\ calls # << >>
    /\ calls[1].ok
    /\ dbContacts[calls[1].id].stage_id = event.args[2]
    /\ dbContacts[calls[1].id].stage_id # PersistedContacts[calls[1].id].stage_id
    /\ \A d \in ContactIds \ { calls[1].id } : dbContacts[d] = PersistedContacts[d]
    /\ \A i \in 1 .. Len(contacts) :
          contacts[i].id # calls[1].id
              => contacts[i] = ContactOf(PersistedContacts, contacts[i].id)

====
